---- MODULE Spec2Model ----
(***************************************************************************)
(* A model of src/main.ts: one run of the action that dismisses the        *)
(* approvals of a pull request.  The run is an async function; each action *)
(* below is one synchronous stretch of it (from one await to the next), or *)
(* the completion of one remote call.                                      *)
(*                                                                         *)
(* Strings that the code inspects are sequences: the excluding-shas input  *)
(* and commit ids are sequences of characters (split and trim work on      *)
(* them), error messages are sequences of words (includes works on them).  *)
(***************************************************************************)
EXTENDS Integers, Sequences, FiniteSets, TLC

VARIABLES
    token,               \* input github-token ("" when not supplied)
    payload,             \* github.context.payload
    reasonInput,         \* input reason ("" when not supplied)
    excludingShasInput,  \* input excluding-shas, a sequence of characters
    dryRunInput,         \* input dry-run
    pc,                  \* where run is: start, listReviews, createComment, dismissAll, done
    page,                \* the loop variable of getPullRequestApprovals
    approvals,           \* the accumulator of getPullRequestApprovals
    excludingShas,       \* run's excludingShas, once computed
    approvalsToProcess,  \* run's approvalsToProcess, once computed
    filtered,            \* TRUE once approvalsToProcess has been computed
    calls,               \* every remote call issued so far, in issue order, with its outcome
    settled,             \* the indices in calls of the completed calls, in completion order
    responses,           \* the successful ListReviews responses, in order
    raised,              \* every value thrown or rejected with so far, in order
    failures,            \* the messages given to core.setFailed, in order
    warnings,            \* the number of console.warn calls
    dismissed,           \* remote: the ids of the reviews dismissed
    comments             \* remote: the bodies of the comments created

vars == <<token, payload, reasonInput, excludingShasInput, dryRunInput, pc, page,
          approvals, excludingShas, approvalsToProcess, filtered, calls, settled,
          responses, raised, failures, warnings, dismissed, comments>>

inputs == <<token, payload, reasonInput, excludingShasInput, dryRunInput>>

(***************************************************************************)
(* Bounds of the model.                                                    *)
(***************************************************************************)
\* the remote advertises a next page only before this page
MaxPages == 2
\* the reviews the remote returns in one run, over all its pages
MaxReviews == 2

(***************************************************************************)
(* Values.                                                                 *)
(***************************************************************************)
\* null, as a commit_id: no sequence of characters equals it
NULL == <<"null">>

SeqsUpTo(S, n) == UNION {[1..k -> S] : k \in 0..n}

\* the reviews the remote may hold
Reviews ==
    { [id |-> 1, state |-> "APPROVED", commit_id |-> <<"a">>],
      [id |-> 2, state |-> "APPROVED", commit_id |-> NULL],
      [id |-> 3, state |-> "CHANGES_REQUESTED", commit_id |-> <<"a">>],
      [id |-> 4, state |-> "APPROVED", commit_id |-> <<"b">>] }

\* the headers of a ListReviews response: the link header may be missing
NextHeaders == { [link |-> <<"rel=\"next\"", "rel=\"last\"">>] }
LastHeaders == { [status |-> "200 OK"],
                 [link |-> <<"rel=\"prev\"", "rel=\"first\"">>] }

\* the messages of the errors the remote service answers with
RemoteErrors == { <<"Not", "Found">>, <<"Bad", "credentials">> }

Payloads == { [action |-> "opened"],
              [action |-> "opened", pull_request |-> [number |-> 7]] }

ExcludingShasInputs ==
    { <<>>, <<"a">>, <<"a", ",", " ", "b">> }

\* the excluding-shas inputs of the runs that look at how the input is parsed
ShasInputs ==
    { <<>>, <<" ">>, <<"a">>, <<" ", "a", " ">>, <<",">>, <<"a", ",", "b">>,
      <<"a", ",", " ", "b">>, <<" ", "a", " ", ",", " ", "b", " ">>,
      <<"a", ",", ",", "b">>, <<"a", " ", "b">>, <<",", "a">>,
      <<"a", "b", "c", ",", " ", "d", "e", "f">> }

DryRunInputs == {"true", "false", "yes"}

\* an Error object with a message
Err(message) == [isError |-> TRUE, message |-> message]

\* values that are not Error objects: a rejection with a bare string
NonErrors == { [isError |-> FALSE, value |-> <<"Not", "Found">>],
              [isError |-> FALSE, value |-> <<"timeout">>] }

(***************************************************************************)
(* Strings.                                                                *)
(***************************************************************************)
IsSpace(c) == c = " "

\* String.prototype.trim
RECURSIVE TrimLeft(_)
TrimLeft(s) ==
    IF s # <<>> /\ IsSpace(Head(s)) THEN TrimLeft(Tail(s)) ELSE s

RECURSIVE TrimRight(_)
TrimRight(s) ==
    IF s # <<>> /\ IsSpace(s[Len(s)])
    THEN TrimRight(SubSeq(s, 1, Len(s) - 1))
    ELSE s

Trim(s) == TrimLeft(TrimRight(s))

\* String.prototype.split(sep): the pieces between the commas, empty ones included
RECURSIVE Split(_, _)
Split(s, sep) ==
    IF \E i \in 1..Len(s) : s[i] = sep
    THEN LET i == CHOOSE k \in 1..Len(s) :
                      s[k] = sep /\ \A j \in 1..(k - 1) : s[j] # sep
         IN  <<SubSeq(s, 1, i - 1)>> \o Split(SubSeq(s, i + 1, Len(s)), sep)
    ELSE <<s>>

\* String.prototype.includes, on a message: pat is a run of consecutive words of msg
Includes(msg, pat) ==
    \E i \in 0..(Len(msg) - Len(pat)) : SubSeq(msg, i + 1, i + Len(pat)) = pat

\* Array.prototype.includes
ArrayIncludes(arr, x) == \E i \in 1..Len(arr) : arr[i] = x

\* a slip in line 25: the pieces are not trimmed
TrimEachNot(pieces) == pieces

\* line 25: map(sha => sha.trim())
TrimEach(pieces) == [i \in 1..Len(pieces) |-> Trim(pieces[i])]

\* line 38: approvalsToProcess.map(approval => approval.id)
ApprovalIds(list) == [i \in 1..Len(list) |-> list[i].id]

(***************************************************************************)
(* The pieces of run, getPullRequestApprovals and dismissApprovals.        *)
(***************************************************************************)
\* core.getInput(name, {required: true}) throws this when the input is empty
RequiredInputError(name) ==
    Err(<<"Input", "required", "and", "not", "supplied:", name>>)

\* a slip in lines 13-15: the message stops before the instruction
MissingPullRequestErrorNoHint ==
    Err(<<"event", "context", "does", "not", "contain", "pull", "request", "data">>)

\* the error of lines 13-15 (the message quotes pull_request in backquotes)
MissingPullRequestError ==
    Err(<<"event", "context", "does", "not", "contain", "pull", "request", "data",
          "-", "ensure", "this", "action", "was", "triggered", "on", "a",
          "pull_request", "event">>)

\* core.getBooleanInput throws this TypeError when the input is no YAML boolean
NotBooleanError(name) ==
    Err(<<"Input", "does", "not", "meet", "YAML", "1.2", "Core", "Schema",
          "specification:", name>>)

\* line 12: !pr
NoPullRequest(p) == "pull_request" \notin DOMAIN p

\* the call of lines 73-78
ListReviewsCall(prNumber, pageNumber) ==
    [op |-> "ListReviews", pull_number |-> prNumber, page |-> pageNumber,
     status |-> "pending", error |-> <<>>]

\* a slip in line 79: every review is taken, whatever its state
ApprovedOnlyAnyState(data) == data

\* line 79: result.data.filter(review => review.state === APPROVED)
ApprovedOnly(data) == SelectSeq(data, LAMBDA review : review.state = "APPROVED")

\* a slip in line 79: the page goes in front of the accumulator
PushApprovalsInFront(acc, data) == ApprovedOnly(data) \o acc

\* line 79: approvals.push(...)
PushApprovals(acc, data) == acc \o ApprovedOnly(data)

\* a slip in line 80: any link header keeps the loop going
HasNextPageAnyLink(headers) == "link" \in DOMAIN headers

\* a slip in lines 72-83: the loop ends after its first page, whatever the link
HasNextPageNever(headers) == FALSE

\* line 80, negated: the loop goes on to the next page
HasNextPage(headers) ==
    ~ ( \/ "link" \notin DOMAIN headers
        \/ ~ ArrayIncludes(headers.link, "rel=\"next\"") )

\* lines 24-26
ParseExcludingShas(input) ==
    IF input # <<>> THEN TrimEach(Split(input, ",")) ELSE <<>>

\* lines 23-26, worked out once for each value the input can have
ParsedShas ==
    [input \in ExcludingShasInputs \cup ShasInputs |->
        ParseExcludingShas(Trim(input))]

\* a slip in line 33: the negation is lost
KeepApprovalOnlyListed(approval, shas) ==
    \/ approval.commit_id = NULL
    \/ ArrayIncludes(shas, approval.commit_id)

\* lines 31-33: the predicate of the filter
KeepApproval(approval, shas) ==
    \/ approval.commit_id = NULL
    \/ ~ ArrayIncludes(shas, approval.commit_id)

\* a slip in lines 28-35: the kept approvals come out last first
FilterApprovalsReversed(all, shas) ==
    LET kept == SelectSeq(all, LAMBDA approval : KeepApproval(approval, shas))
    IN  IF Len(shas) > 0
        THEN [i \in 1..Len(kept) |-> kept[Len(kept) + 1 - i]]
        ELSE all

\* lines 28-35
FilterApprovals(all, shas) ==
    IF Len(shas) > 0
    THEN SelectSeq(all, LAMBDA approval : KeepApproval(approval, shas))
    ELSE all

\* a slip in line 108: the count is one short
CreateCommentCallOneShort(approvalIds, prNumber, reason) ==
    [op |-> "CreateComment", issue_number |-> prNumber,
     body |-> <<"dismiss_stale_approvals dry run: Would have dismissed ",
                Len(approvalIds) - 1, " approvals with reason:\n\n", reason>>,
     status |-> "pending", error |-> <<>>]

\* lines 104-109
CreateCommentCall(approvalIds, prNumber, reason) ==
    [op |-> "CreateComment", issue_number |-> prNumber,
     body |-> <<"dismiss_stale_approvals dry run: Would have dismissed ",
                Len(approvalIds), " approvals with reason:\n\n", reason>>,
     status |-> "pending", error |-> <<>>]

\* a slip in lines 114-122: the first approval id is left out
DismissReviewCallsButFirst(approvalIds, prNumber, reason) ==
    [i \in 1..(Len(approvalIds) - 1) |->
        [op |-> "DismissReview", pull_number |-> prNumber,
         review_id |-> approvalIds[i + 1], message |-> reason,
         status |-> "pending", error |-> <<>>]]

\* lines 114-122: one call for each approval id
DismissReviewCalls(approvalIds, prNumber, reason) ==
    [i \in 1..Len(approvalIds) |->
        [op |-> "DismissReview", pull_number |-> prNumber,
         review_id |-> approvalIds[i], message |-> reason,
         status |-> "pending", error |-> <<>>]]

\* a slip in lines 99-101: the empty list is not returned on
dismissApprovalsNoEmptyCheck(approvalIds, prNumber, reason) ==
    IF dryRunInput \notin {"true", "false"}
    THEN [thrown |-> <<NotBooleanError("dry-run")>>, issued |-> <<>>, pc |-> "done"]
    ELSE IF dryRunInput = "true"
    THEN [thrown |-> <<>>,
          issued |-> <<CreateCommentCall(approvalIds, prNumber, reason)>>,
          pc |-> "createComment"]
    ELSE [thrown |-> <<>>,
          issued |-> DismissReviewCalls(approvalIds, prNumber, reason),
          pc |-> IF Len(approvalIds) = 0 THEN "done" ELSE "dismissAll"]

\* lines 99-123, up to the first await: what dismissApprovals throws, which calls
\* it issues and where it waits
dismissApprovals(approvalIds, prNumber, reason) ==
    IF Len(approvalIds) = 0
    THEN [thrown |-> <<>>, issued |-> <<>>, pc |-> "done"]
    ELSE IF dryRunInput \notin {"true", "false"}
    THEN [thrown |-> <<NotBooleanError("dry-run")>>, issued |-> <<>>, pc |-> "done"]
    ELSE IF dryRunInput = "true"
    THEN [thrown |-> <<>>,
          issued |-> <<CreateCommentCall(approvalIds, prNumber, reason)>>,
          pc |-> "createComment"]
    ELSE [thrown |-> <<>>,
          issued |-> DismissReviewCalls(approvalIds, prNumber, reason),
          pc |-> "dismissAll"]

\* a slip in line 41: the reason is read without required: true
AfterCollectReasonOptional(all) ==
    LET shas == ParsedShas[excludingShasInput]
        toProcess == FilterApprovals(all, shas)
        out == dismissApprovals(ApprovalIds(toProcess), payload.pull_request.number,
                                reasonInput)
    IN  [excludingShas |-> shas, approvalsToProcess |-> toProcess,
         thrown |-> out.thrown, issued |-> out.issued, pc |-> out.pc]

\* lines 23-42, up to the first await: run, once the approvals are collected
AfterCollect(all) ==
    LET shas == ParsedShas[excludingShasInput]
        toProcess == FilterApprovals(all, shas)
        ids == ApprovalIds(toProcess)
        out == IF reasonInput = ""
               THEN [thrown |-> <<RequiredInputError("reason")>>,
                     issued |-> <<>>, pc |-> "done"]
               ELSE dismissApprovals(ids, payload.pull_request.number, reasonInput)
    IN  [excludingShas |-> shas, approvalsToProcess |-> toProcess,
         thrown |-> out.thrown, issued |-> out.issued, pc |-> out.pc]

\* a slip in lines 43-50: the error is caught and not reported
CatchSilently(error) ==
    /\ warnings' = warnings
    /\ failures' = failures
    /\ pc' = "done"

\* a slip in line 44: the instanceof test is left out, whatever is caught is
\* reported
CatchAnything(error) ==
    LET text == IF error.isError THEN error.message ELSE error.value
    IN  /\ warnings' = IF Includes(text, <<"Not", "Found">>)
                       THEN warnings + 1
                       ELSE warnings
        /\ failures' = Append(failures, text)
        /\ pc' = "done"

\* lines 43-50: the catch block of run
Catch(error) ==
    /\ warnings' = IF error.isError /\ Includes(error.message, <<"Not", "Found">>)
                   THEN warnings + 1
                   ELSE warnings
    /\ failures' = IF error.isError
                   THEN Append(failures, error.message)
                   ELSE failures
    /\ pc' = "done"

\* the call log with call i fulfilled, or rejected with an error of this message
Fulfil(i) == [calls EXCEPT ![i].status = "ok"]
Reject(i, msg) == [calls EXCEPT ![i].status = "failed", ![i].error = msg]

Pending(op) == {i \in 1..Len(calls) : calls[i].op = op /\ calls[i].status = "pending"}

\* the reviews the remote has returned so far in this run
RECURSIVE Returned(_)
Returned(rs) == IF rs = <<>> THEN <<>> ELSE Head(rs).data \o Returned(Tail(rs))

(***************************************************************************)
(* The run.                                                                *)
(***************************************************************************)
Init ==
    /\ token \in {"", "ghp_token"}
    /\ payload \in Payloads
    /\ reasonInput \in {"", "stale"}
    /\ excludingShasInput \in ExcludingShasInputs
    /\ dryRunInput \in DryRunInputs
    /\ pc = "start"
    /\ page = 0
    /\ approvals = <<>>
    /\ excludingShas = <<>>
    /\ approvalsToProcess = <<>>
    /\ filtered = FALSE
    /\ calls = <<>>
    /\ settled = <<>>
    /\ responses = <<>>
    /\ raised = <<>>
    /\ failures = <<>>
    /\ warnings = 0
    /\ dismissed = {}
    /\ comments = <<>>

\* lines 10-21: run, up to the first ListReviews call
Start ==
    /\ pc = "start"
    /\ IF token = ""
       THEN /\ raised' = Append(raised, RequiredInputError("github-token"))
            /\ Catch(RequiredInputError("github-token"))
            /\ UNCHANGED <<page, calls>>
       ELSE IF NoPullRequest(payload)
       THEN /\ raised' = Append(raised, MissingPullRequestError)
            /\ Catch(MissingPullRequestError)
            /\ UNCHANGED <<page, calls>>
       ELSE /\ page' = 1
            /\ calls' = Append(calls, ListReviewsCall(payload.pull_request.number, 1))
            /\ pc' = "listReviews"
            /\ UNCHANGED <<raised, failures, warnings>>
    /\ UNCHANGED <<inputs, approvals, excludingShas, approvalsToProcess, filtered,
                   settled, responses, dismissed, comments>>

\* a slip in lines 72-83: the approvals of a page are dismissed as the page
\* arrives, while the next page is asked for
ListReviewsOkStreaming ==
    /\ pc = "listReviews"
    /\ \E i \in Pending("ListReviews") :
       \E data \in SeqsUpTo(Reviews, MaxReviews - Len(Returned(responses))) :
       \E headers \in LastHeaders \cup (IF page < MaxPages THEN NextHeaders ELSE {}) :
          LET all == PushApprovals(approvals, data)
              out == AfterCollect(all)
          IN  /\ settled' = Append(settled, i)
              /\ responses' = Append(responses, [data |-> data, headers |-> headers])
              /\ approvals' = all
              /\ IF HasNextPage(headers)
                 THEN /\ page' = page + 1
                      /\ calls' = Append(Fulfil(i),
                                     ListReviewsCall(payload.pull_request.number, page + 1))
                                  \o DismissReviewCalls(ApprovalIds(ApprovedOnly(data)),
                                                        payload.pull_request.number,
                                                        reasonInput)
                      /\ UNCHANGED <<pc, excludingShas, approvalsToProcess, filtered,
                                     raised, failures, warnings>>
                 ELSE /\ excludingShas' = out.excludingShas
                      /\ approvalsToProcess' = out.approvalsToProcess
                      /\ filtered' = TRUE
                      /\ calls' = Fulfil(i) \o out.issued
                      /\ raised' = raised \o out.thrown
                      /\ IF out.thrown # <<>>
                         THEN Catch(out.thrown[1])
                         ELSE pc' = out.pc /\ UNCHANGED <<failures, warnings>>
                      /\ UNCHANGED page
    /\ UNCHANGED <<inputs, dismissed, comments>>

\* lines 73-83 and then 23-42: a page arrives; the loop either asks for the next
\* page or ends, and run goes on to filter and to dismissApprovals
ListReviewsOk ==
    /\ pc = "listReviews"
    /\ \E i \in Pending("ListReviews") :
       \E data \in SeqsUpTo(Reviews, MaxReviews - Len(Returned(responses))) :
       \E headers \in LastHeaders \cup (IF page < MaxPages THEN NextHeaders ELSE {}) :
          LET all == PushApprovals(approvals, data)
              out == AfterCollect(all)
          IN  /\ settled' = Append(settled, i)
              /\ responses' = Append(responses, [data |-> data, headers |-> headers])
              /\ approvals' = all
              /\ IF HasNextPage(headers)
                 THEN /\ page' = page + 1
                      /\ calls' = Append(Fulfil(i),
                                     ListReviewsCall(payload.pull_request.number, page + 1))
                      /\ UNCHANGED <<pc, excludingShas, approvalsToProcess, filtered,
                                     raised, failures, warnings>>
                 ELSE /\ excludingShas' = out.excludingShas
                      /\ approvalsToProcess' = out.approvalsToProcess
                      /\ filtered' = TRUE
                      /\ calls' = Fulfil(i) \o out.issued
                      /\ raised' = raised \o out.thrown
                      /\ IF out.thrown # <<>>
                         THEN Catch(out.thrown[1])
                         ELSE pc' = out.pc /\ UNCHANGED <<failures, warnings>>
                      /\ UNCHANGED page
    /\ UNCHANGED <<inputs, dismissed, comments>>

\* a slip in lines 72-83: the collector catches the rejection, leaves the loop
\* and returns what it has
ListReviewsFailSwallowed ==
    /\ pc = "listReviews"
    /\ \E i \in Pending("ListReviews") : \E msg \in RemoteErrors :
          LET out == AfterCollect(approvals)
          IN  /\ settled' = Append(settled, i)
              /\ excludingShas' = out.excludingShas
              /\ approvalsToProcess' = out.approvalsToProcess
              /\ filtered' = TRUE
              /\ calls' = Reject(i, msg) \o out.issued
              /\ raised' = Append(raised, Err(msg)) \o out.thrown
              /\ IF out.thrown # <<>>
                 THEN Catch(out.thrown[1])
                 ELSE pc' = out.pc /\ UNCHANGED <<failures, warnings>>
    /\ UNCHANGED <<inputs, page, approvals, responses, dismissed, comments>>

\* line 73: the ListReviews call rejects; nothing in getPullRequestApprovals
\* catches it
ListReviewsFail ==
    /\ pc = "listReviews"
    /\ \E i \in Pending("ListReviews") : \E msg \in RemoteErrors :
          /\ calls' = Reject(i, msg)
          /\ settled' = Append(settled, i)
          /\ raised' = Append(raised, Err(msg))
          /\ Catch(Err(msg))
    /\ UNCHANGED <<inputs, page, approvals, excludingShas, approvalsToProcess,
                   filtered, responses, dismissed, comments>>

\* lines 104-110: the comment is created and dismissApprovals returns
CreateCommentOk ==
    /\ pc = "createComment"
    /\ \E i \in Pending("CreateComment") :
          /\ calls' = Fulfil(i)
          /\ settled' = Append(settled, i)
          /\ comments' = Append(comments, calls[i].body)
    /\ pc' = "done"
    /\ UNCHANGED <<inputs, page, approvals, excludingShas, approvalsToProcess,
                   filtered, responses, raised, failures, warnings, dismissed>>

\* line 104: the CreateComment call rejects
CreateCommentFail ==
    /\ pc = "createComment"
    /\ \E i \in Pending("CreateComment") : \E msg \in RemoteErrors :
          /\ calls' = Reject(i, msg)
          /\ settled' = Append(settled, i)
          /\ raised' = Append(raised, Err(msg))
          /\ Catch(Err(msg))
    /\ UNCHANGED <<inputs, page, approvals, excludingShas, approvalsToProcess,
                   filtered, responses, dismissed, comments>>

\* a slip in line 113: Promise.race, the first call to fulfil ends the wait
DismissReviewOkFirstWins ==
    /\ \E i \in Pending("DismissReview") :
          /\ calls' = Fulfil(i)
          /\ settled' = Append(settled, i)
          /\ dismissed' = dismissed \cup {calls[i].review_id}
          /\ pc' = IF pc = "dismissAll" THEN "done" ELSE pc
    /\ UNCHANGED <<inputs, page, approvals, excludingShas, approvalsToProcess,
                   filtered, responses, raised, failures, warnings, comments>>

\* lines 113-123: one of the DismissReview calls fulfils; Promise.all fulfils
\* when it was the last one
DismissReviewOk ==
    /\ \E i \in Pending("DismissReview") :
          /\ calls' = Fulfil(i)
          /\ settled' = Append(settled, i)
          /\ dismissed' = dismissed \cup {calls[i].review_id}
          /\ pc' = IF pc = "dismissAll" /\ Pending("DismissReview") = {i}
                   THEN "done"
                   ELSE pc
    /\ UNCHANGED <<inputs, page, approvals, excludingShas, approvalsToProcess,
                   filtered, responses, raised, failures, warnings, comments>>

\* a slip in lines 113-123: every rejection reaches the catch block, not only
\* the first
DismissReviewFailEachReported ==
    /\ \E i \in Pending("DismissReview") : \E msg \in RemoteErrors :
          /\ calls' = Reject(i, msg)
          /\ settled' = Append(settled, i)
          /\ raised' = Append(raised, Err(msg))
          /\ Catch(Err(msg))
    /\ UNCHANGED <<inputs, page, approvals, excludingShas, approvalsToProcess,
                   filtered, responses, dismissed, comments>>

\* lines 113-123: one of the DismissReview calls rejects; Promise.all rejects at
\* the first rejection and ignores the later ones
DismissReviewFail ==
    /\ \E i \in Pending("DismissReview") : \E msg \in RemoteErrors :
          /\ calls' = Reject(i, msg)
          /\ settled' = Append(settled, i)
          /\ raised' = Append(raised, Err(msg))
          /\ IF pc = "dismissAll"
             THEN Catch(Err(msg))
             ELSE UNCHANGED <<pc, failures, warnings>>
    /\ UNCHANGED <<inputs, page, approvals, excludingShas, approvalsToProcess,
                   filtered, responses, dismissed, comments>>

\* lines 8-9: runs on a pull request event, with a token
InitShas ==
    /\ token = "ghp_token"
    /\ payload = [action |-> "opened", pull_request |-> [number |-> 7]]
    /\ reasonInput \in {"", "stale"}
    /\ excludingShasInput \in ShasInputs
    /\ dryRunInput \in DryRunInputs
    /\ pc = "start"
    /\ page = 0
    /\ approvals = <<>>
    /\ excludingShas = <<>>
    /\ approvalsToProcess = <<>>
    /\ filtered = FALSE
    /\ calls = <<>>
    /\ settled = <<>>
    /\ responses = <<>>
    /\ raised = <<>>
    /\ failures = <<>>
    /\ warnings = 0
    /\ dismissed = {}
    /\ comments = <<>>

\* lines 19, 104, 115 and then 43-44: a remote call rejects with a value that
\* is not an Error; the catch block gets it when run is waiting for that call
RemoteRejectsNonError ==
    /\ \E i \in 1..Len(calls) : \E value \in NonErrors :
          /\ calls[i].status = "pending"
          /\ calls' = Reject(i, value.value)
          /\ settled' = Append(settled, i)
          /\ raised' = Append(raised, value)
          /\ IF calls[i].op = "DismissReview" => pc = "dismissAll"
             THEN Catch(value)
             ELSE UNCHANGED <<pc, failures, warnings>>
    /\ UNCHANGED <<inputs, page, approvals, excludingShas, approvalsToProcess,
                   filtered, responses, dismissed, comments>>

Next ==
    \/ Start
    \/ ListReviewsOk
    \/ ListReviewsFail
    \/ CreateCommentOk
    \/ CreateCommentFail
    \/ DismissReviewOk
    \/ DismissReviewFail

Spec == Init /\ [][Next]_vars

SpecShas == InitShas /\ [][Next]_vars

\* every remote call returns in the end, and the event loop then runs the
\* continuation that awaits it
FairSpec == Spec /\ WF_vars(Next)

\* the runs in which a remote call may also reject with a value that is not an
\* Error
NextAny ==
    \/ Next
    \/ RemoteRejectsNonError

SpecAny == Init /\ [][NextAny]_vars

(***************************************************************************)
(* What the claims speak of.                                               *)
(***************************************************************************)
CallsOf(op) == SelectSeq(calls, LAMBDA c : c.op = op)

Count(seq, P(_)) == Cardinality({i \in 1..Len(seq) : P(seq[i])})

\* the inputs run requires are supplied and the event is a pull request event
TokenSupplied == token # ""
ReasonSupplied == reasonInput # ""
LiveMode == dryRunInput = "false"
DryRunMode == dryRunInput = "true"

\* a response advertises a next page
AdvertisesNext(response) ==
    /\ "link" \in DOMAIN response.headers
    /\ \E i \in 1..Len(response.headers.link) : response.headers.link[i] = "rel=\"next\""

\* a review of this id was returned by ListReviews in state approved
ReturnedApproved(id) ==
    \E r \in 1..Len(responses) : \E j \in 1..Len(responses[r].data) :
        /\ responses[r].data[j].id = id
        /\ responses[r].data[j].state = "APPROVED"

\* C1: in live mode with the reason supplied, once the approvals are filtered,
\* each approval id of the filtered list has as many DismissReview calls as it
\* has places in the list, every DismissReview call carries the configured
\* reason, and there is no CreateComment call; before the filter has run
\* there is no DismissReview call at all.
C1_LiveDismissesEachOnce ==
    /\ ~ filtered => CallsOf("DismissReview") = <<>>
    /\ (filtered /\ LiveMode /\ ReasonSupplied) =>
          /\ Len(CallsOf("DismissReview")) = Len(approvalsToProcess)
          /\ \A r \in Reviews :
                Count(CallsOf("DismissReview"), LAMBDA c : c.review_id = r.id)
                    = Count(approvalsToProcess, LAMBDA a : a.id = r.id)
          /\ \A i \in 1..Len(calls) :
                calls[i].op = "DismissReview" => calls[i].message = reasonInput
          /\ CallsOf("CreateComment") = <<>>

\* a live run that has finished without a failure after dismissing two
\* different reviews
C1_Witness ==
    /\ pc = "done" /\ LiveMode /\ failures = <<>>
    /\ \E i, j \in 1..Len(calls) :
          /\ calls[i].op = "DismissReview" /\ calls[j].op = "DismissReview"
          /\ calls[i].review_id # calls[j].review_id
          /\ calls[i].status = "ok" /\ calls[j].status = "ok"

\* C3: every review id given to DismissReview was returned by a ListReviews
\* response of the run in state approved, and so was every review that is
\* collected or counted in the comment of a dry run: no review in another
\* state is in approvals or in approvalsToProcess.
C3_OnlyApprovedAreCandidates ==
    /\ \A i \in 1..Len(calls) :
          calls[i].op = "DismissReview" => ReturnedApproved(calls[i].review_id)
    /\ \A i \in 1..Len(approvals) :
          approvals[i].state = "APPROVED" /\ ReturnedApproved(approvals[i].id)
    /\ \A i \in 1..Len(approvalsToProcess) :
          approvalsToProcess[i].state = "APPROVED"
          /\ ReturnedApproved(approvalsToProcess[i].id)
    /\ \A i \in 1..Len(calls) :
          calls[i].op = "CreateComment" => calls[i].body[2] = Len(approvalsToProcess)

\* a review was dismissed in a run whose ListReviews responses also held a
\* review that is not approved
C3_Witness ==
    /\ \E i \in 1..Len(calls) : calls[i].op = "DismissReview" /\ calls[i].status = "ok"
    /\ \E r \in 1..Len(responses) : \E j \in 1..Len(responses[r].data) :
          responses[r].data[j].state # "APPROVED"

\* C4: the ListReviews calls ask for pages 1, 2, 3, ... in this order, each one
\* issued only when the one before has completed; every response but the last
\* advertised a next page; when the last response advertises none, there are
\* as many ListReviews calls as responses, and when it advertises one, the
\* next page has been asked for.
C4_PagesInOrderUntilNoNext ==
    LET lr == CallsOf("ListReviews")
    IN  /\ \A i \in 1..Len(lr) : lr[i].page = i
        /\ \A i \in 1..(Len(lr) - 1) : lr[i].status = "ok"
        /\ \A i \in 1..(Len(responses) - 1) : AdvertisesNext(responses[i])
        /\ Len(responses) > 0 =>
              Len(lr) = Len(responses)
                        + (IF AdvertisesNext(responses[Len(responses)]) THEN 1 ELSE 0)
        /\ pc # "start" /\ Len(responses) = 0 => Len(lr) <= 1

\* two pages: the first advertised a next page, the second has a link header
\* without one, and two ListReviews calls were made
C4_Witness ==
    /\ Len(responses) = 2
    /\ AdvertisesNext(responses[1])
    /\ "link" \in DOMAIN responses[2].headers
    /\ ~ AdvertisesNext(responses[2])
    /\ Len(CallsOf("ListReviews")) = 2
    /\ pc = "done"

\* C5: the accumulator of the collector is the approved reviews of the pages
\* fetched so far, in page order and in each page's order; so is the list the
\* collector returns when every page request has succeeded.
C5_CollectsApprovedInOrder ==
    approvals = SelectSeq(Returned(responses), LAMBDA review : review.state = "APPROVED")

\* the collector has returned two different approvals, one from each of two
\* pages
C5_Witness ==
    /\ filtered
    /\ Len(responses) = 2
    /\ Len(approvals) = 2
    /\ approvals[1] # approvals[2]
    /\ Len(responses[1].data) = 1

\* the message tells that the action must be triggered on a pull request event
InstructsPullRequestEvent(msg) ==
    Includes(msg, <<"triggered", "on", "a", "pull_request", "event">>)

\* what claim C2 says of a dry run, given that its precondition holds
DryRunReportsOnce ==
    LET cc == CallsOf("CreateComment")
    IN  /\ Len(cc) = 1
        /\ cc[1].issue_number = payload.pull_request.number
        /\ cc[1].body[2] = Len(approvalsToProcess)
        /\ cc[1].body[4] = reasonInput
        /\ CallsOf("DismissReview") = <<>>
        /\ cc[1].status = "pending" => pc = "createComment"
        /\ cc[1].status = "ok" => pc = "done" /\ failures = <<>>
        /\ cc[1].status = "failed" => pc = "done" /\ failures = <<cc[1].error>>

\* C2, as stated: in dry-run mode, once the approvals are filtered and the
\* filtered list is not empty, there is exactly one CreateComment call, on the
\* pull request, its body states the length of the list and the reason, there
\* is no DismissReview call, the run ends without a failure when the call
\* fulfils and with a failure when it rejects.
C2_Original ==
    (filtered /\ DryRunMode /\ approvalsToProcess # <<>>) => DryRunReportsOnce

\* C2, amended: the same, for the runs in which the reason input is supplied.
C2_DryRunReportsOnce ==
    (filtered /\ DryRunMode /\ ReasonSupplied /\ approvalsToProcess # <<>>)
        => DryRunReportsOnce

\* a dry run over two approvals has finished without a failure, its one
\* comment created
C2_Witness ==
    /\ pc = "done" /\ DryRunMode /\ failures = <<>>
    /\ Len(approvalsToProcess) = 2
    /\ Len(comments) = 1
    /\ comments[1][2] = 2

\* C6, as stated: when the payload holds no pull request the run ends with one
\* failure whose message tells to trigger the action on a pull request event,
\* and no remote call is ever made.
C6_Original ==
    NoPullRequest(payload) =>
        /\ calls = <<>>
        /\ pc # "start" =>
              /\ pc = "done"
              /\ Len(failures) = 1
              /\ InstructsPullRequestEvent(failures[1])

\* C6, amended: when the payload holds no pull request, no remote call is ever
\* made and the run ends with one failure; its message tells to trigger the
\* action on a pull request event when the github-token input is supplied,
\* and is that of the missing github-token input when it is not.
C6_NoPullRequestFailsBeforeAnyCall ==
    NoPullRequest(payload) =>
        /\ calls = <<>>
        /\ pc # "start" =>
              /\ pc = "done"
              /\ Len(failures) = 1
              /\ TokenSupplied => InstructsPullRequestEvent(failures[1])
              /\ ~ TokenSupplied =>
                    failures[1] = <<"Input", "required", "and", "not", "supplied:",
                                    "github-token">>

\* a run with a token and no pull request has ended
C6_Witness ==
    /\ NoPullRequest(payload) /\ TokenSupplied
    /\ pc = "done"
    /\ Len(failures) = 1

\* the strings of the exclusion set
ExclusionSet == {excludingShas[i] : i \in 1..Len(excludingShas)}

\* C7: the filtered list is the collected approvals that the filter keeps, in
\* their order, where an approval is kept if and only if the exclusion set is
\* empty, or its commit_id is null, or its commit_id is not in the set; an
\* approval whose commit_id is null is in the filtered list as often as in
\* the collected one.
C7_FilterKeeps ==
    filtered =>
        /\ approvalsToProcess =
              SelectSeq(approvals, LAMBDA a : \/ ExclusionSet = {}
                                             \/ a.commit_id = NULL
                                             \/ a.commit_id \notin ExclusionSet)
        /\ Count(approvalsToProcess, LAMBDA a : a.commit_id = NULL)
              = Count(approvals, LAMBDA a : a.commit_id = NULL)

\* the filter has removed an approval and kept one whose commit_id is null
C7_Witness ==
    /\ filtered
    /\ ExclusionSet # {}
    /\ Len(approvals) = 2
    /\ Len(approvalsToProcess) = 1
    /\ approvalsToProcess[1].commit_id = NULL

\* C8: once a ListReviews call has failed, the run has ended with exactly one
\* failure, which carries the message of that error; the page was asked for
\* once, no call was issued after the failed one, the approvals of the earlier
\* pages were never filtered or passed on, and there is no CreateComment and
\* no DismissReview call.
C8_ListFailureAbortsRun ==
    \A i \in 1..Len(calls) :
        (calls[i].op = "ListReviews" /\ calls[i].status = "failed") =>
            /\ pc = "done"
            /\ failures = <<calls[i].error>>
            /\ i = Len(calls)
            /\ \A j \in 1..Len(calls) :
                  (calls[j].op = "ListReviews" /\ calls[j].page = calls[i].page) => j = i
            /\ ~ filtered /\ approvalsToProcess = <<>>
            /\ CallsOf("CreateComment") = <<>>
            /\ CallsOf("DismissReview") = <<>>

\* the request for the second page failed after the first page had brought an
\* approval
C8_Witness ==
    /\ Len(calls) = 2
    /\ calls[2].op = "ListReviews" /\ calls[2].status = "failed"
    /\ approvals # <<>>
    /\ pc = "done"

\* the rejected DismissReview calls, in the order in which they were rejected
Rejections ==
    SelectSeq(settled, LAMBDA i : calls[i].op = "DismissReview"
                                    /\ calls[i].status = "failed")

\* C9: in live mode, once a DismissReview call has failed, the run has ended
\* with exactly one failure, which carries the message of the first
\* rejection; there are no more DismissReview calls than filtered approvals
\* (nothing is issued again), no other kind of call follows, and every review
\* whose dismissal succeeded is still dismissed.
C9_DismissFailureFailsRun ==
    /\ Rejections # <<>> =>
          /\ LiveMode
          /\ pc = "done"
          /\ failures = <<calls[Rejections[1]].error>>
          /\ Len(CallsOf("DismissReview")) = Len(approvalsToProcess)
          /\ CallsOf("CreateComment") = <<>>
          /\ Len(calls) = Len(CallsOf("ListReviews")) + Len(approvalsToProcess)
    /\ \A i \in 1..Len(calls) :
          (calls[i].op = "DismissReview" /\ calls[i].status = "ok")
              => calls[i].review_id \in dismissed

\* two DismissReview calls were rejected, with different errors
C9_Witness ==
    /\ Len(Rejections) = 2
    /\ calls[Rejections[1]].error # calls[Rejections[2]].error
    /\ pc = "done"

\* what claim C10 says of a run whose filtered list is empty
EmptyListSucceeds ==
    /\ CallsOf("CreateComment") = <<>>
    /\ CallsOf("DismissReview") = <<>>
    /\ pc = "done"
    /\ failures = <<>>

\* C10, as stated: when the filtered list is empty there is no CreateComment
\* and no DismissReview call, whatever the dry-run input, and the run has
\* ended without a failure.
C10_Original ==
    (filtered /\ approvalsToProcess = <<>>) => EmptyListSucceeds

\* C10, amended: the same, for the runs in which the reason input is supplied.
C10_EmptyListIsNoOp ==
    (filtered /\ ReasonSupplied /\ approvalsToProcess = <<>>) => EmptyListSucceeds

\* a dry run has ended without a failure after the filter removed every
\* collected approval
C10_Witness ==
    /\ filtered /\ DryRunMode
    /\ approvals # <<>>
    /\ approvalsToProcess = <<>>
    /\ pc = "done" /\ failures = <<>>
    /\ Len(calls) = Len(CallsOf("ListReviews"))


\* C11, as stated: every error raised is converted to a failure signal with
\* its message, the run has ended as soon as an error is raised, and there is
\* at most one failure signal.
C11_Original ==
    /\ Len(failures) <= 1
    /\ raised # <<>> => pc = "done"
    /\ \A k \in 1..Len(raised) :
          \E j \in 1..Len(failures) : failures[j] = raised[k].message

\* C11, amended: the first error raised in a run is caught by run and gives
\* the one failure signal, with its message, and the run has ended; without
\* an error there is no failure signal; the only errors raised after the
\* first are the later rejections of the DismissReview calls, which
\* Promise.all drops without any signal.
C11_FirstErrorReportedOnce ==
    /\ Len(failures) <= 1
    /\ raised = <<>> => failures = <<>>
    /\ raised # <<>> =>
          /\ pc = "done"
          /\ failures = <<raised[1].message>>
    /\ Len(raised) > 1 =>
          /\ Len(raised) = Len(Rejections)
          /\ \A k \in 1..Len(raised) : raised[k].message = calls[Rejections[k]].error

\* two DismissReview calls were rejected with different errors and the run
\* reported the first
C11_Witness ==
    /\ Len(raised) = 2
    /\ raised[1].message # raised[2].message
    /\ failures = <<raised[1].message>>
    /\ pc = "done"


\* s is t with some of its elements left out, the others in their order
IsSubsequence(s, t) ==
    \E f \in [1..Len(s) -> 1..Len(t)] :
        /\ \A i \in 1..Len(s) : t[f[i]] = s[i]
        /\ \A i, j \in 1..Len(s) : i < j => f[i] < f[j]

\* C12: the filtered list is a subsequence of the collected approvals, in the
\* same relative order, and filtering it again with the same exclusion set
\* gives the same list.
C12_FilterOrderPreservingIdempotent ==
    filtered =>
        /\ IsSubsequence(approvalsToProcess, approvals)
        /\ FilterApprovals(approvalsToProcess, excludingShas) = approvalsToProcess

\* the filter ran with a non-empty exclusion set and kept two different
\* approvals
C12_Witness ==
    /\ filtered
    /\ ExclusionSet # {}
    /\ Len(approvalsToProcess) = 2
    /\ approvalsToProcess[1] # approvalsToProcess[2]


\* a string without its spaces
NoSpaces(s) == SelectSeq(s, LAMBDA c : c # " ")

\* Array.prototype.join
RECURSIVE JoinCommas(_)
JoinCommas(entries) ==
    IF entries = <<>> THEN <<>>
    ELSE IF Len(entries) = 1 THEN entries[1]
    ELSE entries[1] \o <<",">> \o JoinCommas(Tail(entries))

\* C13: the exclusion list is the excluding-shas input split at its commas,
\* every entry without the spaces around it: there is one entry more than
\* commas, no entry begins or ends with a space, and the entries joined by
\* commas are the input, spaces apart; the input "abc, def" gives the entries
\* "abc" and "def"; an input that is empty (or only spaces) gives no entry,
\* and then the filtered list, which is what run hands to the Executor, is the
\* collected one; where the Executor is entered (the reason is supplied) it
\* issues one DismissReview call for each collected approval in live mode and
\* counts them all in the comment of a dry run.
C13_ExclusionParsing ==
    filtered =>
        /\ NoSpaces(excludingShasInput) # <<>> =>
              /\ Len(excludingShas) = Len(SelectSeq(excludingShasInput, LAMBDA c : c = ",")) + 1
              /\ \A i \in 1..Len(excludingShas) :
                    excludingShas[i] # <<>> =>
                        /\ excludingShas[i][1] # " "
                        /\ excludingShas[i][Len(excludingShas[i])] # " "
              /\ NoSpaces(JoinCommas(excludingShas)) = NoSpaces(excludingShasInput)
        /\ excludingShasInput = <<"a", "b", "c", ",", " ", "d", "e", "f">> =>
              excludingShas = << <<"a", "b", "c">>, <<"d", "e", "f">> >>
        /\ NoSpaces(excludingShasInput) = <<>> =>
              /\ excludingShas = <<>>
              /\ approvalsToProcess = approvals
              /\ (LiveMode /\ ReasonSupplied) =>
                    [i \in 1..Len(CallsOf("DismissReview")) |->
                        CallsOf("DismissReview")[i].review_id]
                    = [i \in 1..Len(approvals) |-> approvals[i].id]
              /\ (DryRunMode /\ ReasonSupplied /\ approvals # <<>>) =>
                    /\ Len(CallsOf("CreateComment")) = 1
                    /\ CallsOf("CreateComment")[1].body[2] = Len(approvals)

\* the input "abc, def" has been parsed
C13_Witness ==
    /\ filtered
    /\ excludingShasInput = <<"a", "b", "c", ",", " ", "d", "e", "f">>
    /\ excludingShas = << <<"a", "b", "c">>, <<"d", "e", "f">> >>
    /\ approvals # <<>>


\* C14, as stated: run has not finished while a DismissReview call that it
\* issued is in flight.
C14_Original ==
    pc = "done" => Pending("DismissReview") = {}

\* C14, amended: run has not finished while a DismissReview call is in flight,
\* unless one of the calls has been rejected: then run has ended at the first
\* rejection, with its failure signal, whatever calls are still in flight; and
\* while run waits, no call has been rejected.
C14_WaitsUnlessRejected ==
    /\ (pc = "done" /\ Pending("DismissReview") # {}) =>
          /\ Rejections # <<>>
          /\ failures = <<calls[Rejections[1]].error>>
    /\ pc = "dismissAll" =>
          /\ Rejections = <<>>
          /\ Pending("DismissReview") # {}

\* run has ended on a rejection while another DismissReview call is in flight
C14_Witness ==
    /\ pc = "done"
    /\ Pending("DismissReview") # {}
    /\ Len(Rejections) = 1
    /\ Len(failures) = 1


\* C15: no review id is the target of more than one DismissReview call.
C15_DistinctTargets ==
    \A i, j \in 1..Len(calls) :
        ( /\ calls[i].op = "DismissReview"
          /\ calls[j].op = "DismissReview"
          /\ calls[i].review_id = calls[j].review_id ) => i = j

\* the message of core.getInput for a required input that is not supplied
NotSupplied(name) == <<"Input", "required", "and", "not", "supplied:", name>>

\* C16, as stated: a run in which the token or the reason is not supplied
\* makes no remote call and ends with a failure signal.
C16_Original ==
    (~ TokenSupplied \/ ~ ReasonSupplied) =>
        /\ calls = <<>>
        /\ pc # "start" => (pc = "done" /\ Len(failures) = 1)

\* C16, amended: only the token is read (and the pull request looked for)
\* before the first ListReviews call: a run without a token makes no remote
\* call and fails with the missing-input message of github-token.  The
\* reason is read once the approvals are collected and filtered: a run
\* without a reason, on a pull request and with a token, does call
\* ListReviews, makes no CreateComment and no DismissReview call, and once the
\* collection has succeeded it has failed with the missing-input message of
\* reason.  The dry-run input is read last, in the Executor, and only for a
\* list that is not empty.  CreateComment and DismissReview calls come only
\* after the filter.
C16_InputsReadWhereUsed ==
    /\ ~ TokenSupplied =>
          /\ calls = <<>>
          /\ pc # "start" => (pc = "done" /\ failures = <<NotSupplied("github-token")>>)
    /\ ~ ReasonSupplied =>
          /\ CallsOf("CreateComment") = <<>>
          /\ CallsOf("DismissReview") = <<>>
          /\ filtered => (pc = "done" /\ failures = <<NotSupplied("reason")>>)
          /\ (TokenSupplied /\ ~ NoPullRequest(payload) /\ pc # "start") =>
                CallsOf("ListReviews") # <<>>
    /\ (ReasonSupplied /\ filtered /\ dryRunInput \notin {"true", "false"}) =>
          /\ pc = "done"
          /\ Len(calls) = Len(CallsOf("ListReviews"))
          /\ approvalsToProcess = <<>> => failures = <<>>
          /\ approvalsToProcess # <<>> =>
                (Len(failures) = 1 /\ failures[1][Len(failures[1])] = "dry-run")
    /\ Len(calls) # Len(CallsOf("ListReviews")) => filtered

\* a run without a reason has fetched two pages and then failed for the
\* missing reason
C16_Witness ==
    /\ ~ ReasonSupplied
    /\ filtered
    /\ Len(responses) = 2
    /\ approvalsToProcess # <<>>
    /\ failures = <<NotSupplied("reason")>>


Mutating(c) == c.op \in {"CreateComment", "DismissReview"}

\* C17: every ListReviews call was issued before every CreateComment and
\* DismissReview call; when such a call has been issued, every ListReviews call
\* has completed successfully, the last response advertises no next page, and
\* the whole list of approvals has been collected and filtered.
C17_NoStreaming ==
    /\ \A i, j \in 1..Len(calls) :
          (calls[i].op = "ListReviews" /\ Mutating(calls[j])) => i < j
    /\ (\E j \in 1..Len(calls) : Mutating(calls[j])) =>
          /\ filtered
          /\ \A i \in 1..Len(calls) :
                calls[i].op = "ListReviews" => calls[i].status = "ok"
          /\ Len(responses) = Len(CallsOf("ListReviews"))
          /\ ~ AdvertisesNext(responses[Len(responses)])
          /\ approvals = SelectSeq(Returned(responses),
                                   LAMBDA review : review.state = "APPROVED")

\* DismissReview calls were issued after two pages, each with an approval
C17_Witness ==
    /\ Len(responses) = 2
    /\ Len(responses[1].data) = 1
    /\ Len(CallsOf("DismissReview")) = 2
    /\ Len(CallsOf("ListReviews")) = 2


\* every response so far has advertised a next page
AllAdvertiseNext ==
    /\ responses # <<>>
    /\ \A r \in 1..Len(responses) : AdvertisesNext(responses[r])

\* the collector goes on: the page after the last one has been asked for, and
\* nothing has been filtered, commented or dismissed
StillCollecting ==
    /\ ~ filtered
    /\ Len(CallsOf("ListReviews")) = Len(responses) + 1
    /\ calls[Len(calls)].op = "ListReviews"
    /\ calls[Len(calls)].page = Len(responses) + 1
    /\ Len(calls) = Len(CallsOf("ListReviews"))
    /\ pc = "listReviews" \/ calls[Len(calls)].status = "failed"

ContainsNotFound(message) ==
    \E i \in 1..(Len(message) - 1) : message[i] = "Not" /\ message[i + 1] = "Found"

\* what run caught: the first value thrown or rejected
Caught == raised[1]

\* C19: when the value that reaches the catch block of run is not an Error, run
\* still completes, with no failure signal and no advisory note; when it is an
\* Error, its message is the one failure signal, and the advisory note is written
\* exactly when that message contains "Not Found"; when nothing was thrown there
\* is neither a failure signal nor an advisory note.
C19_OnlyErrorsReported ==
    /\ raised = <<>> => failures = <<>> /\ warnings = 0
    /\ raised # <<>> =>
          /\ pc = "done"
          /\ IF Caught.isError
             THEN /\ failures = <<Caught.message>>
                  /\ warnings = IF ContainsNotFound(Caught.message) THEN 1 ELSE 0
             ELSE /\ failures = <<>>
                  /\ warnings = 0

\* a remote call rejected with the bare text "Not Found" and run completed
\* without a failure signal or an advisory note
C19_Witness ==
    /\ pc = "done"
    /\ raised # <<>>
    /\ Caught = [isError |-> FALSE, value |-> <<"Not", "Found">>]
    /\ failures = <<>>
    /\ warnings = 0

====
